---- MODULE Spec2Model ----
(***************************************************************************)
(* Model of projeto.py: customers, accounts, transactions and the          *)
(* transaction history of the banking system, together with the menu       *)
(* functions that main() dispatches to.                                     *)
(*                                                                          *)
(* Amounts and balances are Python numbers.  A number is modelled as a     *)
(* record [k, v]: k = "fin" for a finite value v, k = "inf" for +inf,      *)
(* k = "nan" for not-a-number (float("inf") and float("nan") are accepted  *)
(* by float(input()) and by every method that takes an amount).            *)
(***************************************************************************)
EXTENDS Integers, Sequences, FiniteSets, TLC

VARIABLES customers, accounts, heap, last, frames, lock

vars == <<customers, accounts, heap, last, frames, lock>>

(***************************************************************************)
(* Bounds of the model.                                                     *)
(***************************************************************************)
MaxCustomers == 2
MaxAccounts == 2
MaxEntries == 4
MaxMainEntries == 2
MaxCallerCustomers == 3
MaxBalance == 1000

(***************************************************************************)
(* Program constants.                                                       *)
(***************************************************************************)
DefaultLimit == 500
DefaultWithdrawalLimit == 3

(***************************************************************************)
(* Python numbers.                                                          *)
(***************************************************************************)
Fin(n) == [k |-> "fin", v |-> n]
PosInf == [k |-> "inf", v |-> 0]
NegInf == [k |-> "ninf", v |-> 0]
NaN == [k |-> "nan", v |-> 0]

Zero == Fin(0)

\* Position of a number that is not nan on the extended real line.
Ord(x) == CASE x.k = "ninf" -> -1 [] x.k = "inf" -> 1 [] OTHER -> 0

\* x > y on Python numbers: every comparison with nan is False.
FGt(x, y) ==
    IF x.k = "nan" \/ y.k = "nan" THEN FALSE
    ELSE IF x.k = "fin" /\ y.k = "fin" THEN x.v > y.v
    ELSE Ord(x) > Ord(y)

\* x >= y on Python numbers.
FGe(x, y) ==
    IF x.k = "nan" \/ y.k = "nan" THEN FALSE
    ELSE IF x.k = "fin" /\ y.k = "fin" THEN x.v >= y.v
    ELSE Ord(x) >= Ord(y)

\* x <= y on Python numbers.
FLe(x, y) == FGe(y, x)

\* -x on Python numbers.
FNeg(x) ==
    CASE x.k = "fin" -> Fin(-x.v)
      [] x.k = "inf" -> NegInf
      [] x.k = "ninf" -> PosInf
      [] OTHER -> NaN

\* x + y on Python numbers: inf + (-inf) is nan.
FAdd(x, y) ==
    IF x.k = "nan" \/ y.k = "nan" THEN NaN
    ELSE IF x.k = "fin" /\ y.k = "fin" THEN Fin(x.v + y.v)
    ELSE IF Ord(x) + Ord(y) = 0 THEN NaN
    ELSE IF Ord(x) + Ord(y) > 0 THEN PosInf
    ELSE NegInf

\* x - y on Python numbers: inf - inf is nan.
FSub(x, y) == FAdd(x, FNeg(y))

(***************************************************************************)
(* Inputs.  The amounts a caller can pass, or float(input()) can return:    *)
(* negative, zero, positive, infinite and nan.  Deposits of the default     *)
(* limit let the balance reach every withdrawal amount; withdrawals are     *)
(* tried at the limit and over it.                                          *)
(***************************************************************************)
DepositAmounts == {Fin(-250), Fin(0), Fin(DefaultLimit), PosInf, NaN}

WithdrawAmounts == {Fin(-250), Fin(0), Fin(DefaultLimit), Fin(750), PosInf, NaN}

AmountsOf(type) == IF type = "Deposit" THEN DepositAmounts ELSE WithdrawAmounts

SSNs == {"111", "222"}

\* A date text is modelled by what strptime sees in it: whether it has the
\* shape digits-digits-digits (one or two digits, one or two digits, four
\* digits), and the three numbers.
DateStr(shape, d, m, y) == [shape |-> shape, d |-> d, m |-> m, y |-> y]

DateTexts ==
    { DateStr(TRUE, 1, 1, 1990),     \* "01-01-1990"
      DateStr(TRUE, 31, 2, 2020),    \* "31-02-2020"
      DateStr(TRUE, 29, 2, 2021),    \* "29-02-2021"
      DateStr(TRUE, 31, 4, 2000),    \* "31-04-2000"
      DateStr(TRUE, 1, 13, 2000),    \* "01-13-2000"
      DateStr(FALSE, 1, 1, 1990) }   \* "1990/01/01"

\* datetime.now(), formatted: the model does not tell times apart.
Timestamps == {"dd-mm-yyyy HH:MM:SS"}

(***************************************************************************)
(* validate_date                                                            *)
(***************************************************************************)
IsLeap(y) == (y % 4 = 0 /\ y % 100 # 0) \/ y % 400 = 0

DaysInMonth(m, y) ==
    CASE m \in {4, 6, 9, 11} -> 30
      [] m = 2 -> IF IsLeap(y) THEN 29 ELSE 28
      [] OTHER -> 31

\* validate_date testing the shape of the text only.
validate_date_shape(date_str) == date_str.shape

\* TRUE iff validate_date returns; FALSE iff it raises InvalidDateException.
validate_date(date_str) ==
    /\ date_str.shape
    /\ date_str.y \in 1..9999
    /\ date_str.m \in 1..12
    /\ date_str.d \in 1..DaysInMonth(date_str.m, date_str.y)

(***************************************************************************)
(* Account, CheckingAccount                                                 *)
(***************************************************************************)
\* Account.__init__
Account_init(number, customer) ==
    [cls |-> "Account", balance |-> Zero, number |-> number, branch |-> "0001",
     customer |-> customer, history |-> <<>>]

\* CheckingAccount.__init__ storing its two limits in each other's place.
CheckingAccount_init_swapped(number, customer) ==
    [cls |-> "CheckingAccount", balance |-> Zero, number |-> number,
     branch |-> "0001", customer |-> customer, history |-> <<>>,
     limit |-> Fin(DefaultWithdrawalLimit), withdrawal_limit |-> DefaultLimit]

\* CheckingAccount.__init__ with limit=500, withdrawal_limit=3
CheckingAccount_init(number, customer) ==
    [cls |-> "CheckingAccount", balance |-> Zero, number |-> number,
     branch |-> "0001", customer |-> customer, history |-> <<>>,
     limit |-> Fin(DefaultLimit), withdrawal_limit |-> DefaultWithdrawalLimit]

\* cls.new_account(customer, number)
new_account(cls, customer, number) ==
    IF cls = "CheckingAccount" THEN CheckingAccount_init(number, customer)
    ELSE Account_init(number, customer)

\* What a method call gives back: the object afterwards, the value returned
\* and the line printed.
Result(self, ret, out) == [self |-> self, ret |-> ret, out |-> out]

\* Account.withdraw
Account_withdraw(self, amount) ==
    LET balance == self.balance
        insufficient_funds == FGt(amount, balance)
    IN  IF insufficient_funds
        THEN Result(self, FALSE, "Insufficient funds")
        ELSE IF FGt(amount, Zero)
        THEN Result([self EXCEPT !.balance = FSub(@, amount)], TRUE,
                    "Withdrawal successful")
        ELSE Result(self, FALSE, "Invalid amount")

\* Account.deposit recording the deposit in the history itself.
Account_deposit_record(self, amount) ==
    IF FGt(amount, Zero)
    THEN Result([self EXCEPT !.balance = FAdd(@, amount),
                             !.history = Append(@, [type |-> "Deposit", amount |-> amount,
                                                    date |-> "dd-mm-yyyy HH:MM:SS"])],
                TRUE, "Deposit successful")
    ELSE Result(self, FALSE, "Invalid amount")

\* Account.deposit accepting an amount of 0 (>= in place of >).
Account_deposit_ge(self, amount) ==
    IF FGe(amount, Zero)
    THEN Result([self EXCEPT !.balance = FAdd(@, amount)], TRUE,
                "Deposit successful")
    ELSE Result(self, FALSE, "Invalid amount")

\* Account.deposit
Account_deposit(self, amount) ==
    IF FGt(amount, Zero)
    THEN Result([self EXCEPT !.balance = FAdd(@, amount)], TRUE,
                "Deposit successful")
    ELSE Result(self, FALSE, "Invalid amount")

\* The number of entries of a history whose type is `type`.
CountOf(transactions, type) ==
    Cardinality({i \in DOMAIN transactions : transactions[i].type = type})

\* CheckingAccount.withdraw testing the count before the limit.
CheckingAccount_withdraw_countfirst(self, amount) ==
    LET number_withdrawals == CountOf(self.history, "Withdrawal")
        exceeded_limit == FGt(amount, self.limit)
        exceeded_withdrawals == number_withdrawals >= self.withdrawal_limit
    IN  IF exceeded_withdrawals
        THEN Result(self, FALSE, "Maximum number of withdrawals exceeded")
        ELSE IF exceeded_limit
        THEN Result(self, FALSE, "Withdrawal amount exceeds the limit")
        ELSE Account_withdraw(self, amount)

\* CheckingAccount.withdraw comparing the count with > in place of >=.
CheckingAccount_withdraw_gt(self, amount) ==
    LET number_withdrawals == CountOf(self.history, "Withdrawal")
        exceeded_limit == FGt(amount, self.limit)
        exceeded_withdrawals == number_withdrawals > self.withdrawal_limit
    IN  IF exceeded_limit
        THEN Result(self, FALSE, "Withdrawal amount exceeds the limit")
        ELSE IF exceeded_withdrawals
        THEN Result(self, FALSE, "Maximum number of withdrawals exceeded")
        ELSE Account_withdraw(self, amount)

\* CheckingAccount.withdraw testing the limit only when the balance is short.
CheckingAccount_withdraw_nolimit(self, amount) ==
    LET number_withdrawals == CountOf(self.history, "Withdrawal")
        exceeded_limit == FGt(amount, self.limit) /\ FGt(amount, self.balance)
        exceeded_withdrawals == number_withdrawals >= self.withdrawal_limit
    IN  IF exceeded_limit
        THEN Result(self, FALSE, "Withdrawal amount exceeds the limit")
        ELSE IF exceeded_withdrawals
        THEN Result(self, FALSE, "Maximum number of withdrawals exceeded")
        ELSE Account_withdraw(self, amount)

\* CheckingAccount.withdraw
CheckingAccount_withdraw(self, amount) ==
    LET number_withdrawals == CountOf(self.history, "Withdrawal")
        exceeded_limit == FGt(amount, self.limit)
        exceeded_withdrawals == number_withdrawals >= self.withdrawal_limit
    IN  IF exceeded_limit
        THEN Result(self, FALSE, "Withdrawal amount exceeds the limit")
        ELSE IF exceeded_withdrawals
        THEN Result(self, FALSE, "Maximum number of withdrawals exceeded")
        ELSE Account_withdraw(self, amount)

\* account.withdraw(amount): the method of the account's class.
withdraw_method(self, amount) ==
    IF self.cls = "CheckingAccount" THEN CheckingAccount_withdraw(self, amount)
    ELSE Account_withdraw(self, amount)

(***************************************************************************)
(* TransactionHistory, Withdrawal, Deposit, Customer.make_transaction       *)
(***************************************************************************)
\* TransactionHistory.add_transaction inserting at the front.
add_transaction_front(transactions, type, amount, date) ==
    <<[type |-> type, amount |-> amount, date |-> date]>> \o transactions

\* TransactionHistory.add_transaction
add_transaction(transactions, type, amount, date) ==
    Append(transactions, [type |-> type, amount |-> amount, date |-> date])

\* Withdrawal.register recording the withdrawal whether or not it succeeded.
Withdrawal_register_always(account, amount, date) ==
    LET r == withdraw_method(account, amount)
    IN  [r EXCEPT !.self.history = add_transaction(@, "Withdrawal", amount, date)]

\* Withdrawal.register
Withdrawal_register(account, amount, date) ==
    LET r == withdraw_method(account, amount)
        transaction_success == r.ret
    IN  IF transaction_success
        THEN [r EXCEPT !.self.history = add_transaction(@, "Withdrawal", amount, date)]
        ELSE r

\* Deposit.register
Deposit_register(account, amount, date) ==
    LET r == Account_deposit(account, amount)
        transaction_success == r.ret
    IN  IF transaction_success
        THEN [r EXCEPT !.self.history = add_transaction(@, "Deposit", amount, date)]
        ELSE r

\* Customer.make_transaction
make_transaction(account, type, amount, date) ==
    IF type = "Deposit" THEN Deposit_register(account, amount, date)
    ELSE Withdrawal_register(account, amount, date)

(***************************************************************************)
(* Lookups of the menu functions.                                           *)
(***************************************************************************)
\* filter_customer: the position of the first customer with this ssn, 0 for None.
filter_customer(ssn, custs) ==
    LET filtered_customers == {i \in DOMAIN custs : custs[i].ssn = ssn}
    IN  IF filtered_customers # {}
        THEN CHOOSE i \in filtered_customers : \A j \in filtered_customers : i <= j
        ELSE 0

\* get_account: the account the prompts select, 0 for None.  account_option is
\* the first option entered that is in range (others are asked again).
get_account(ssn, account_option, custs) ==
    LET customer == filter_customer(ssn, custs)
    IN  IF customer = 0 THEN 0
        ELSE IF custs[customer].accounts = <<>> THEN 0
        ELSE IF Len(custs[customer].accounts) = 1 THEN custs[customer].accounts[1]
        ELSE custs[customer].accounts[account_option]

(***************************************************************************)
(* State.                                                                   *)
(*   heap      - every account object constructed so far; an account is    *)
(*               referred to by its position in heap                        *)
(*   customers - main's customers list, of IndividualCustomer objects       *)
(*   accounts  - main's accounts list, of references into heap              *)
(*   last      - the last call made on the classes or, when a menu function *)
(*               made none, that function: its name ("Deposit" and          *)
(*               "Withdrawal" for a transaction given to make_transaction), *)
(*               the account it acted on (0 for none), the amount passed,   *)
(*               the value the account operation returned, the line printed *)
(***************************************************************************)
Call(op, h, amount, ret, out) ==
    [op |-> op, h |-> h, amount |-> amount, ret |-> ret, out |-> out]

\* The bounds on the growth of balances and histories.
TotalEntries(hp) ==
    LET RECURSIVE Sum(_)
        Sum(i) == IF i = 0 THEN 0 ELSE Len(hp[i].history) + Sum(i - 1)
    IN  Sum(Len(hp))

WithinBounds(hp, entries) ==
    /\ TotalEntries(hp) <= entries
    /\ \A i \in DOMAIN hp : hp[i].balance.k = "fin" => hp[i].balance.v <= MaxBalance

(***************************************************************************)
(* IndividualCustomer.__init__: the customer constructed, or raised = TRUE  *)
(* when validate_date raises InvalidDateException.                          *)
(***************************************************************************)
IndividualCustomer_init(name, date_of_birth, ssn, address) ==
    [raised |-> ~validate_date(date_of_birth),
     obj |-> [address |-> address, accounts |-> <<>>, name |-> name,
              date_of_birth |-> date_of_birth, ssn |-> ssn]]

(***************************************************************************)
(* The menu functions, as main() calls them.                                *)
(***************************************************************************)
\* create_customer without the test for a customer with the same ssn.
create_customer_nocheck(ssn, date_of_birth) ==
    LET c == IndividualCustomer_init("Ana", date_of_birth, ssn, "Rua A, 1")
    IN  /\ validate_date(date_of_birth)
        /\ Len(customers) < MaxCustomers
        /\ ~c.raised
        /\ customers' = Append(customers, c.obj)
        /\ UNCHANGED <<frames, lock>>
        /\ last' = Call("create_customer", 0, Zero, TRUE,
                        "Customer created successfully")
        /\ UNCHANGED <<accounts, heap>>

\* create_customer: date_of_birth is the first date entered that validates.
create_customer(ssn, date_of_birth) ==
    IF filter_customer(ssn, customers) # 0
    THEN /\ UNCHANGED <<frames, lock>>
         /\ last' = Call("create_customer", 0, Zero, FALSE,
                         "A customer with this SSN already exists")
         /\ UNCHANGED <<customers, accounts, heap>>
    ELSE LET c == IndividualCustomer_init("Ana", date_of_birth, ssn, "Rua A, 1")
         IN  /\ validate_date(date_of_birth)
             /\ Len(customers) < MaxCustomers
             /\ ~c.raised
             /\ customers' = Append(customers, c.obj)
             /\ UNCHANGED <<frames, lock>>
             /\ last' = Call("create_customer", 0, Zero, TRUE,
                             "Customer created successfully")
             /\ UNCHANGED <<accounts, heap>>

\* create_account numbering the account within its customer's accounts.
create_account_percustomer(ssn) ==
    LET customer == filter_customer(ssn, customers)
    IN  IF customer = 0
        THEN /\ UNCHANGED <<frames, lock>>
             /\ last' = Call("create_account", 0, Zero, FALSE, "Customer not found")
             /\ UNCHANGED <<customers, accounts, heap>>
        ELSE /\ Len(heap) < MaxAccounts
             /\ heap' = Append(heap, new_account("CheckingAccount", customer,
                                                 Len(customers[customer].accounts) + 1))
             /\ accounts' = Append(accounts, Len(heap) + 1)
             /\ customers' = [customers EXCEPT ![customer].accounts = Append(@, Len(heap) + 1)]
             /\ UNCHANGED <<frames, lock>>
             /\ last' = Call("create_account", Len(heap) + 1, Zero, TRUE,
                             "Account created successfully")

\* create_account without the append to the customer's accounts.
create_account_noattach(ssn) ==
    LET account_number == Len(accounts) + 1
        customer == filter_customer(ssn, customers)
    IN  IF customer = 0
        THEN /\ UNCHANGED <<frames, lock>>
             /\ last' = Call("create_account", 0, Zero, FALSE, "Customer not found")
             /\ UNCHANGED <<customers, accounts, heap>>
        ELSE /\ Len(heap) < MaxAccounts
             /\ heap' = Append(heap, new_account("CheckingAccount", customer, account_number))
             /\ accounts' = Append(accounts, Len(heap) + 1)
             /\ UNCHANGED <<frames, lock>>
             /\ last' = Call("create_account", Len(heap) + 1, Zero, TRUE,
                             "Account created successfully")
             /\ UNCHANGED customers

\* main, option "4", and create_account
create_account(ssn) ==
    LET account_number == Len(accounts) + 1
        customer == filter_customer(ssn, customers)
    IN  IF customer = 0
        THEN /\ UNCHANGED <<frames, lock>>
             /\ last' = Call("create_account", 0, Zero, FALSE, "Customer not found")
             /\ UNCHANGED <<customers, accounts, heap>>
        ELSE /\ Len(heap) < MaxAccounts
             /\ heap' = Append(heap, new_account("CheckingAccount", customer, account_number))
             /\ accounts' = Append(accounts, Len(heap) + 1)
             /\ customers' = [customers EXCEPT ![customer].accounts = Append(@, Len(heap) + 1)]
             /\ UNCHANGED <<frames, lock>>
             /\ last' = Call("create_account", Len(heap) + 1, Zero, TRUE,
                             "Account created successfully")

\* What get_account prints when it returns None.
NoAccountOut(ssn) ==
    IF filter_customer(ssn, customers) = 0 THEN "Customer not found"
    ELSE "Customer has no account"

\* The options get_account accepts for this customer.
Options(ssn) ==
    LET customer == filter_customer(ssn, customers)
    IN  IF customer = 0 \/ Len(customers[customer].accounts) <= 1 THEN {1}
        ELSE 1..Len(customers[customer].accounts)

\* The menu's deposit and withdraw with one history shared by all accounts.
MenuTransaction_shared(op, type, ssn, account_option, amount, date) ==
    LET account == get_account(ssn, account_option, customers)
    IN  IF account = 0
        THEN /\ UNCHANGED <<frames, lock>>
             /\ last' = Call(op, 0, Zero, FALSE, NoAccountOut(ssn))
             /\ UNCHANGED <<customers, accounts, heap>>
        ELSE LET r == make_transaction(heap[account], type, amount, date)
             IN  /\ FGt(amount, Zero)
                 /\ heap' = [h \in DOMAIN heap |->
                                 IF h = account THEN r.self
                                 ELSE [heap[h] EXCEPT !.history = r.self.history]]
                 /\ WithinBounds(heap', MaxMainEntries)
                 /\ UNCHANGED <<frames, lock>>
                 /\ last' = Call(type, account, amount, r.ret, r.out)
                 /\ UNCHANGED <<customers, accounts>>

\* The body shared by the menu's deposit and withdraw: amount is the first
\* amount entered that is > 0 (others are asked again).
MenuTransaction(op, type, ssn, account_option, amount, date) ==
    LET account == get_account(ssn, account_option, customers)
    IN  IF account = 0
        THEN /\ UNCHANGED <<frames, lock>>
             /\ last' = Call(op, 0, Zero, FALSE, NoAccountOut(ssn))
             /\ UNCHANGED <<customers, accounts, heap>>
        ELSE LET r == make_transaction(heap[account], type, amount, date)
             IN  /\ FGt(amount, Zero)
                 /\ heap' = [heap EXCEPT ![account] = r.self]
                 /\ WithinBounds(heap', MaxMainEntries)
                 /\ UNCHANGED <<frames, lock>>
                 /\ last' = Call(type, account, amount, r.ret, r.out)
                 /\ UNCHANGED <<customers, accounts>>

\* deposit(customers)
deposit(ssn, account_option, amount, date) ==
    MenuTransaction("deposit", "Deposit", ssn, account_option, amount, date)

\* withdraw(customers)
withdraw(ssn, account_option, amount, date) ==
    MenuTransaction("withdraw", "Withdrawal", ssn, account_option, amount, date)

\* display_statement(customers)
display_statement(ssn, account_option) ==
    LET account == get_account(ssn, account_option, customers)
    IN  /\ last' = IF account = 0
                   THEN Call("display_statement", 0, Zero, FALSE, NoAccountOut(ssn))
                   ELSE Call("display_statement", account, Zero, TRUE,
                             IF heap[account].history = <<>>
                             THEN "No transactions have been made."
                             ELSE "Statement")
        /\ UNCHANGED <<customers, accounts, heap, frames, lock>>

\* list_accounts(accounts)
list_accounts ==
    /\ UNCHANGED <<frames, lock>>
    /\ last' = Call("list_accounts", 0, Zero, TRUE, "")
    /\ UNCHANGED <<customers, accounts, heap>>

(***************************************************************************)
(* The classes called directly, as their interface allows.                  *)
(***************************************************************************)
\* account.deposit(amount)
CallDeposit(h, amount) ==
    LET r == Account_deposit(heap[h], amount)
    IN  /\ heap' = [heap EXCEPT ![h] = r.self]
        /\ WithinBounds(heap', MaxEntries)
        /\ UNCHANGED <<frames, lock>>
        /\ last' = Call("Account.deposit", h, amount, r.ret, r.out)
        /\ UNCHANGED <<customers, accounts>>

\* account.withdraw(amount)
CallWithdraw(h, amount) ==
    LET r == withdraw_method(heap[h], amount)
    IN  /\ heap' = [heap EXCEPT ![h] = r.self]
        /\ UNCHANGED <<frames, lock>>
        /\ last' = Call("Account.withdraw", h, amount, r.ret, r.out)
        /\ UNCHANGED <<customers, accounts>>

\* customer.make_transaction(account, Deposit(amount) or Withdrawal(amount))
CallMakeTransaction(h, type, amount, date) ==
    LET r == make_transaction(heap[h], type, amount, date)
    IN  /\ heap' = [heap EXCEPT ![h] = r.self]
        /\ WithinBounds(heap', MaxEntries)
        /\ UNCHANGED <<frames, lock>>
        /\ last' = Call(type, h, amount, r.ret, r.out)
        /\ UNCHANGED <<customers, accounts>>

(***************************************************************************)
(* Spec: the classes under a caller that holds one customer and one account *)
(* constructed for that customer, of either class, and calls the account's  *)
(* methods and Customer.make_transaction with any amounts.                  *)
(***************************************************************************)
\* No caller is inside a call and no lock is in use: the program as written,
\* where every call runs to its end before the next begins.
FreeLock == [used |-> FALSE, holder |-> 0]

Ana == IndividualCustomer_init("Ana", DateStr(TRUE, 1, 1, 1990), "111", "Rua A, 1").obj

Init ==
    /\ customers = <<Ana>>
    /\ accounts = <<>>
    /\ \E cls \in {"Account", "CheckingAccount"} : heap = <<new_account(cls, 1, 1)>>
    /\ frames = <<>>
    /\ lock = FreeLock
    /\ last = Call("new_account", 1, Zero, TRUE, "")

Next ==
    \/ \E h \in DOMAIN heap, a \in DepositAmounts : CallDeposit(h, a)
    \/ \E h \in DOMAIN heap, a \in WithdrawAmounts : CallWithdraw(h, a)
    \/ \E h \in DOMAIN heap, type \in {"Deposit", "Withdrawal"}, t \in Timestamps :
          \E a \in AmountsOf(type) : CallMakeTransaction(h, type, a, t)

Spec == Init /\ [][Next]_vars

(***************************************************************************)
(* SpecTx: the caller of Spec when it changes the account only through      *)
(* Customer.make_transaction.                                               *)
(***************************************************************************)
NextTx ==
    \/ \E h \in DOMAIN heap, t \in Timestamps, a \in AmountsOf("Deposit") :
          CallMakeTransaction(h, "Deposit", a, t)
    \/ \E h \in DOMAIN heap, t \in Timestamps, a \in AmountsOf("Withdrawal") :
          CallMakeTransaction(h, "Withdrawal", a, t)

SpecTx == Init /\ [][NextTx]_vars

(***************************************************************************)
(* SpecMain: main().  The lists start empty and each step is one pass of    *)
(* the menu loop.                                                           *)
(***************************************************************************)
InitMain ==
    /\ customers = <<>>
    /\ accounts = <<>>
    /\ heap = <<>>
    /\ frames = <<>>
    /\ lock = FreeLock
    /\ last = Call("main", 0, Zero, FALSE, "")

NextMain ==
    \/ \E ssn \in SSNs, d \in DateTexts : create_customer(ssn, d)
    \/ \E ssn \in SSNs : create_account(ssn)
    \/ \E ssn \in SSNs, a \in DepositAmounts, t \in Timestamps :
          \E o \in Options(ssn) : deposit(ssn, o, a, t)
    \/ \E ssn \in SSNs, a \in WithdrawAmounts, t \in Timestamps :
          \E o \in Options(ssn) : withdraw(ssn, o, a, t)
    \/ \E ssn \in SSNs : \E o \in Options(ssn) : display_statement(ssn, o)
    \/ list_accounts

SpecMain == InitMain /\ [][NextMain]_vars

(***************************************************************************)
(* SpecCustomer: customers only.  A caller constructs IndividualCustomer    *)
(* objects directly with any date text and keeps those constructed in       *)
(* customers, and create_customer is called on the same list.               *)
(***************************************************************************)
\* The date texts tried: those of the menu, a 29th of February of a leap year
\* and a year 0.
CallerDateTexts ==
    DateTexts \cup {DateStr(TRUE, 29, 2, 2020), DateStr(TRUE, 1, 1, 0)}

\* IndividualCustomer(name, date_of_birth, ssn, address)
CallIndividualCustomer(ssn, date_of_birth) ==
    LET c == IndividualCustomer_init("Ana", date_of_birth, ssn, "Rua A, 1")
    IN  IF c.raised
        THEN /\ UNCHANGED <<frames, lock>>
             /\ last' = Call("IndividualCustomer", 0, Zero, FALSE, "InvalidDateException")
             /\ UNCHANGED <<customers, accounts, heap>>
        ELSE /\ Len(customers) < MaxCallerCustomers
             /\ customers' = Append(customers, c.obj)
             /\ UNCHANGED <<frames, lock>>
             /\ last' = Call("IndividualCustomer", 0, Zero, TRUE, "")
             /\ UNCHANGED <<accounts, heap>>

NextCustomer ==
    \/ \E ssn \in SSNs, d \in CallerDateTexts : CallIndividualCustomer(ssn, d)
    \/ \E ssn \in SSNs, d \in CallerDateTexts : create_customer(ssn, d)

SpecCustomer == InitMain /\ [][NextCustomer]_vars

(***************************************************************************)
(* SpecConcurrent: two callers each run                                     *)
(* customer.make_transaction(account, Withdrawal(amount)) on one account at *)
(* the same time.  A step is one read or one write of the account by one    *)
(* caller; frames[t] holds caller t's position and local variables.  The    *)
(* code has no lock: with lock.used the callers wrap the whole call in one  *)
(* lock of the account, as the specification's concurrency note proposes.   *)
(***************************************************************************)
Callers == {1, 2}

ConcurrentAmounts == {a \in WithdrawAmounts : a.k = "fin" /\ a.v >= 0}

\* The transactions made, one after the other, before the callers start.
PriorTransactions ==
    LET d == [type |-> "Deposit", amount |-> Fin(DefaultLimit)]
        w == [type |-> "Withdrawal", amount |-> Fin(DefaultLimit)]
    IN  {<<>>, <<d>>, <<d, d, d, w, w>>}

RECURSIVE Replay(_, _)
Replay(account, txs) ==
    IF txs = <<>>
    THEN account
    ELSE LET n == Len(txs)
         IN  make_transaction(Replay(account, SubSeq(txs, 1, n - 1)),
                              txs[n].type, txs[n].amount,
                              "dd-mm-yyyy HH:MM:SS").self

Frame(h, amount, pc) ==
    [pc |-> pc, h |-> h, amount |-> amount, balance |-> Zero,
     ret |-> FALSE, out |-> ""]

InitConcurrent ==
    /\ customers = <<Ana>>
    /\ accounts = <<>>
    /\ \E cls \in {"Account", "CheckingAccount"}, prior \in PriorTransactions :
          heap = <<Replay(new_account(cls, 1, 1), prior)>>
    /\ \E used \in BOOLEAN, amounts \in [Callers -> ConcurrentAmounts] :
          /\ lock = [used |-> used, holder |-> 0]
          /\ frames = [t \in Callers |->
                          Frame(1, amounts[t], IF used THEN "acquire" ELSE "register")]
    /\ last = Call("new_account", 1, Zero, TRUE, "")

\* The caller takes the account's lock before the call.
Acquire(t) ==
    /\ frames[t].pc = "acquire"
    /\ lock.holder = 0
    /\ lock' = [lock EXCEPT !.holder = t]
    /\ frames' = [frames EXCEPT ![t].pc = "register"]
    /\ UNCHANGED <<customers, accounts, heap, last>>

\* make_transaction, Withdrawal.register: account.withdraw(self.amount) is
\* the method of the account's class.
Register(t) ==
    /\ frames[t].pc = "register"
    /\ frames' = [frames EXCEPT ![t].pc =
                     IF heap[frames[t].h].cls = "CheckingAccount"
                     THEN "CheckingAccount.withdraw"
                     ELSE "Account.withdraw"]
    /\ UNCHANGED <<customers, accounts, heap, last, lock>>

\* CheckingAccount.withdraw: counts the recorded withdrawals and tests the
\* limit and the count.
CheckingWithdraw(t) ==
    LET f == frames[t]
        self == heap[f.h]
        number_withdrawals == CountOf(self.history, "Withdrawal")
        exceeded_limit == FGt(f.amount, self.limit)
        exceeded_withdrawals == number_withdrawals >= self.withdrawal_limit
    IN  /\ f.pc = "CheckingAccount.withdraw"
        /\ frames' = [frames EXCEPT ![t] =
              IF exceeded_limit
              THEN [f EXCEPT !.pc = "return",
                             !.out = "Withdrawal amount exceeds the limit"]
              ELSE IF exceeded_withdrawals
              THEN [f EXCEPT !.pc = "return",
                             !.out = "Maximum number of withdrawals exceeded"]
              ELSE [f EXCEPT !.pc = "Account.withdraw"]]
        /\ UNCHANGED <<customers, accounts, heap, last, lock>>

\* Account.withdraw without the test for insufficient funds.
AccountWithdraw_nocheck(t) ==
    LET f == frames[t]
    IN  /\ f.pc = "Account.withdraw"
        /\ frames' = [frames EXCEPT ![t] =
              IF FGt(f.amount, Zero)
              THEN [f EXCEPT !.pc = "load"]
              ELSE [f EXCEPT !.pc = "return", !.out = "Invalid amount"]]
        /\ UNCHANGED <<customers, accounts, heap, last, lock>>

\* Account.withdraw: reads the balance and tests the amount against it.
AccountWithdraw(t) ==
    LET f == frames[t]
        balance == heap[f.h].balance
        insufficient_funds == FGt(f.amount, balance)
    IN  /\ f.pc = "Account.withdraw"
        /\ frames' = [frames EXCEPT ![t] =
              IF insufficient_funds
              THEN [f EXCEPT !.pc = "return", !.out = "Insufficient funds"]
              ELSE IF FGt(f.amount, Zero)
              THEN [f EXCEPT !.pc = "load"]
              ELSE [f EXCEPT !.pc = "return", !.out = "Invalid amount"]]
        /\ UNCHANGED <<customers, accounts, heap, last, lock>>

\* self._balance -= amount, the read of self._balance
LoadBalance(t) ==
    /\ frames[t].pc = "load"
    /\ frames' = [frames EXCEPT ![t].pc = "store",
                                ![t].balance = heap[frames[t].h].balance]
    /\ UNCHANGED <<customers, accounts, heap, last, lock>>

\* self._balance -= amount, the write of self._balance; return True
StoreBalance(t) ==
    LET f == frames[t]
    IN  /\ f.pc = "store"
        /\ heap' = [heap EXCEPT ![f.h].balance = FSub(f.balance, f.amount)]
        /\ frames' = [frames EXCEPT ![t].pc = "add_transaction",
                                    ![t].ret = TRUE,
                                    ![t].out = "Withdrawal successful"]
        /\ UNCHANGED <<customers, accounts, last, lock>>

\* Withdrawal.register: account.history.add_transaction(self) after a
\* successful withdraw.
AddTransaction(t, date) ==
    LET f == frames[t]
    IN  /\ f.pc = "add_transaction"
        /\ heap' = [heap EXCEPT ![f.h].history =
                       add_transaction(@, "Withdrawal", f.amount, date)]
        /\ frames' = [frames EXCEPT ![t].pc = "return"]
        /\ UNCHANGED <<customers, accounts, last, lock>>

\* make_transaction returns to the caller.
Return(t) ==
    LET f == frames[t]
    IN  /\ f.pc = "return"
        /\ last' = Call("Withdrawal", f.h, f.amount, f.ret, f.out)
        /\ frames' = [frames EXCEPT ![t].pc = IF lock.used THEN "release" ELSE "done"]
        /\ UNCHANGED <<customers, accounts, heap, lock>>

\* The caller gives the account's lock back after the call.
Release(t) ==
    /\ frames[t].pc = "release"
    /\ lock.holder = t
    /\ lock' = [lock EXCEPT !.holder = 0]
    /\ frames' = [frames EXCEPT ![t].pc = "done"]
    /\ UNCHANGED <<customers, accounts, heap, last>>

NextConcurrent ==
    \/ \E t \in Callers : Acquire(t)
    \/ \E t \in Callers : Register(t)
    \/ \E t \in Callers : CheckingWithdraw(t)
    \/ \E t \in Callers : AccountWithdraw(t)
    \/ \E t \in Callers : LoadBalance(t)
    \/ \E t \in Callers : StoreBalance(t)
    \/ \E t \in Callers, date \in Timestamps : AddTransaction(t, date)
    \/ \E t \in Callers : Return(t)
    \/ \E t \in Callers : Release(t)

SpecConcurrent == InitConcurrent /\ [][NextConcurrent]_vars

(***************************************************************************)
(* Properties.  In the action formulas below the unprimed heap is the       *)
(* state before the call that last' names and the primed heap the state     *)
(* after it.                                                                *)
(***************************************************************************)
WithdrawalCount(acc) == CountOf(acc.history, "Withdrawal")

\* C1: Account.deposit(a), called directly or by Deposit.register, returns
\* true iff a > 0; when it returns true the balance afterwards is the balance
\* before plus a; when it returns false the account is left as it was, and
\* Account.deposit itself never touches the history.
C1_Step ==
    last'.op \in {"Account.deposit", "Deposit"} =>
        LET h == last'.h
            a == last'.amount
        IN  /\ last'.ret <=> FGt(a, Zero)
            /\ last'.ret => heap'[h].balance = FAdd(heap[h].balance, a)
            /\ ~last'.ret => /\ heap'[h].balance = heap[h].balance
                             /\ heap'[h].history = heap[h].history
            /\ last'.op = "Account.deposit" => heap'[h].history = heap[h].history

C1_Deposit == [][C1_Step]_vars

\* C1 witness: a direct deposit of 500 returned true on a balance of 500.
C1_Witness ==
    /\ last.op = "Account.deposit"
    /\ last.ret
    /\ last.amount = Fin(500)
    /\ heap[last.h].balance = Fin(1000)

\* C3: on a CheckingAccount, once withdrawal_limit Withdrawal entries are in
\* the history every Withdrawal given to make_transaction fails and leaves the
\* account as it was; no call lowers the number of Withdrawal entries; and
\* that number never exceeds withdrawal_limit.
C3_Step ==
    \A h \in DOMAIN heap :
        heap[h].cls = "CheckingAccount" =>
            /\ WithdrawalCount(heap'[h]) >= WithdrawalCount(heap[h])
            /\ WithdrawalCount(heap'[h]) <= heap[h].withdrawal_limit
            /\ heap'[h].withdrawal_limit = heap[h].withdrawal_limit
            /\ (/\ last'.op = "Withdrawal"
                /\ last'.h = h
                /\ WithdrawalCount(heap[h]) >= heap[h].withdrawal_limit)
               => ~last'.ret /\ heap'[h] = heap[h]

C4_Step ==
    (/\ last'.op \in {"Account.withdraw", "Withdrawal"}
     /\ heap[last'.h].cls = "CheckingAccount"
     /\ FGt(last'.amount, heap[last'.h].limit))
    => ~last'.ret /\ heap'[last'.h] = heap[last'.h]

C4_OverLimit == [][C4_Step]_vars

\* C4 witness: a withdrawal of 750 failed on the limit of 500 with a balance
\* of 1000 and no withdrawal recorded.
C4_Witness ==
    /\ last.op = "Withdrawal"
    /\ ~last.ret
    /\ last.out = "Withdrawal amount exceeds the limit"
    /\ last.amount = Fin(750)
    /\ heap[last.h].balance = Fin(1000)
    /\ WithdrawalCount(heap[last.h]) = 0

\* C5: a transaction given to make_transaction appends exactly one entry, of
\* its type and amount, iff the account operation returned true; when it
\* returned false the account is left as it was.
C5_Step ==
    last'.op \in {"Deposit", "Withdrawal"} =>
        LET before == heap[last'.h]
            after == heap'[last'.h]
        IN  IF last'.ret
            THEN /\ Len(after.history) = Len(before.history) + 1
                 /\ SubSeq(after.history, 1, Len(before.history)) = before.history
                 /\ after.history[Len(after.history)].type = last'.op
                 /\ after.history[Len(after.history)].amount = last'.amount
            ELSE after = before

C5_RecordOnSuccess == [][C5_Step]_vars

\* C5 witness: a Withdrawal of 500 succeeded and is the last entry of a
\* history of two.
C5_Witness ==
    /\ last.op = "Withdrawal"
    /\ last.ret
    /\ Len(heap[last.h].history) = 2
    /\ heap[last.h].history[2].type = "Withdrawal"
    /\ heap[last.h].history[2].amount = Fin(500)

\* C2: on a base Account, withdraw(a) returns true iff 0 < a <= b, b the
\* balance before; when it returns true the balance afterwards is b - a; in
\* every other case it returns false and the balance is unchanged.
C2_Step ==
    (/\ last'.op \in {"Account.withdraw", "Withdrawal"}
     /\ heap[last'.h].cls = "Account")
    => LET b == heap[last'.h].balance
           a == last'.amount
       IN  /\ last'.ret <=> (FGt(a, Zero) /\ FLe(a, b))
           /\ last'.ret => heap'[last'.h].balance = FSub(b, a)
           /\ ~last'.ret => heap'[last'.h].balance = b

C2_BaseWithdraw == [][C2_Step]_vars

\* C6, as claimed: a successful Account.deposit(a) called directly appends a
\* Deposit entry to the history, and a successful Account.withdraw(a) a
\* Withdrawal entry.
C6_OriginalStep ==
    (last'.op \in {"Account.deposit", "Account.withdraw"} /\ last'.ret)
    => LET before == heap[last'.h].history
           after == heap'[last'.h].history
       IN  /\ Len(after) = Len(before) + 1
           /\ after[Len(after)].type =
                  (IF last'.op = "Account.deposit" THEN "Deposit" ELSE "Withdrawal")
           /\ after[Len(after)].amount = last'.amount

C6_DirectCallRecords == [][C6_OriginalStep]_vars

\* C6, amended: Account.deposit(a) and Account.withdraw(a) called directly
\* change nothing but the balance: the history is left as it was, also when
\* the call returns true and the balance has moved by a.
C6_Step ==
    last'.op \in {"Account.deposit", "Account.withdraw"} =>
        LET before == heap[last'.h]
            after == heap'[last'.h]
        IN  /\ after.history = before.history
            /\ after = [before EXCEPT !.balance = after.balance]
            /\ last'.ret =>
                  after.balance = (IF last'.op = "Account.deposit"
                                   THEN FAdd(before.balance, last'.amount)
                                   ELSE FSub(before.balance, last'.amount))

C6_DirectCallKeepsHistory == [][C6_Step]_vars

\* C6 witness: a direct deposit of 500 returned true and the history is empty.
C6_Witness ==
    /\ last.op = "Account.deposit"
    /\ last.ret
    /\ heap[last.h].balance = Fin(500)
    /\ heap[last.h].history = <<>>

\* C7: the number of Withdrawal entries of an account is 0 at the start and
\* grows by one with each Withdrawal given to make_transaction that succeeds,
\* and with nothing else: a failed attempt leaves it as it was.
C7_Step ==
    \A h \in DOMAIN heap :
        WithdrawalCount(heap'[h]) =
            WithdrawalCount(heap[h])
            + (IF last'.op = "Withdrawal" /\ last'.h = h /\ last'.ret THEN 1 ELSE 0)

C7_CountIsSuccesses ==
    /\ \A h \in DOMAIN heap : WithdrawalCount(heap[h]) = 0
    /\ [][C7_Step]_vars

\* C7 witness: with two withdrawals recorded a third attempt failed for
\* insufficient funds, and two are still recorded.
C7_Witness ==
    /\ last.op = "Withdrawal"
    /\ ~last.ret
    /\ last.out = "Insufficient funds"
    /\ heap[last.h].cls = "CheckingAccount"
    /\ WithdrawalCount(heap[last.h]) = 2

\* C8: every pass of the menu loop leaves every account in place, with the
\* history it had as a prefix of the history it has, grown by at most one
\* entry.
C8_Step ==
    /\ DOMAIN heap \subseteq DOMAIN heap'
    /\ \A h \in DOMAIN heap :
          LET before == heap[h].history
              after == heap'[h].history
          IN  /\ Len(after) \in {Len(before), Len(before) + 1}
              /\ SubSeq(after, 1, Len(before)) = before

C8_AppendOnly == [][C8_Step]_vars

\* C8 witness: the menu's withdraw recorded a Withdrawal after a Deposit.
C8_Witness ==
    /\ last.op = "Withdrawal"
    /\ last.ret
    /\ Len(heap[last.h].history) = 2
    /\ heap[last.h].history[1].type = "Deposit"
    /\ heap[last.h].history[2].type = "Withdrawal"
    /\ Len(accounts) = 2

\* C9: every account's balance is >= 0.
C9_NonNegative == \A h \in DOMAIN heap : FGe(heap[h].balance, Zero)

\* C10: on a base Account with balance 0 and an empty history, Deposit(x)
\* with x > 0 leaves balance x and the history <<Deposit x>>, and Withdrawal(x)
\* applied next leaves balance 0 and the history <<Deposit x, Withdrawal x>>.
Entry(type, amount) ==
    [type |-> type, amount |-> amount, date |-> "dd-mm-yyyy HH:MM:SS"]

C10_Step ==
    LET h == last'.h
        x == last'.amount
    IN  /\ (/\ last'.op = "Deposit"
            /\ heap[h].cls = "Account"
            /\ heap[h].balance = Zero
            /\ heap[h].history = <<>>
            /\ FGt(x, Zero))
           => /\ heap'[h].balance = x
              /\ heap'[h].history = <<Entry("Deposit", x)>>
        /\ (/\ last'.op = "Withdrawal"
            /\ heap[h].cls = "Account"
            /\ heap[h].balance = x
            /\ heap[h].history = <<Entry("Deposit", x)>>
            /\ FGt(x, Zero))
           => /\ heap'[h].balance = Zero
              /\ heap'[h].history = <<Entry("Deposit", x), Entry("Withdrawal", x)>>

C10_RoundTrip == [][C10_Step]_vars

\* C11: an account that create_account creates is a CheckingAccount with
\* limit 500, withdrawal_limit 3, balance 0, branch "0001" and an empty
\* history, and no pass of the menu loop changes the class, number, branch,
\* customer, limit or withdrawal_limit of an account.
C11_Step ==
    /\ (last'.op = "create_account" /\ last'.ret) =>
          /\ Len(heap') = Len(heap) + 1
          /\ last'.h = Len(heap')
          /\ heap'[last'.h].cls = "CheckingAccount"
          /\ heap'[last'.h].limit = Fin(500)
          /\ heap'[last'.h].withdrawal_limit = 3
          /\ heap'[last'.h].balance = Fin(0)
          /\ heap'[last'.h].branch = "0001"
          /\ heap'[last'.h].history = <<>>
    /\ \A h \in DOMAIN heap :
          /\ h \in DOMAIN heap'
          /\ heap'[h].cls = heap[h].cls
          /\ heap'[h].number = heap[h].number
          /\ heap'[h].branch = heap[h].branch
          /\ heap'[h].customer = heap[h].customer
          /\ heap'[h].limit = heap[h].limit
          /\ heap'[h].withdrawal_limit = heap[h].withdrawal_limit

C11_CreatedAccount == [][C11_Step]_vars

\* C11 witness: the second account created has had a deposit and a withdrawal
\* and still has the number, branch and limits it was created with.
C11_Witness ==
    /\ Len(accounts) = 2
    /\ last.op = "Withdrawal"
    /\ last.ret
    /\ last.h = accounts[2]
    /\ heap[last.h].number = 2
    /\ heap[last.h].branch = "0001"
    /\ heap[last.h].limit = Fin(500)
    /\ heap[last.h].withdrawal_limit = 3
    /\ Len(heap[last.h].history) = 2

\* C12: constructing an IndividualCustomer raises InvalidDateException
\* exactly when the date text is not a day of the calendar written as
\* dd-mm-yyyy, and then no customer results; otherwise the customer is
\* constructed with that date.  Every customer in the list has such a date of
\* birth, and create_customer adds at most one customer per call.
DaysOfMonth == <<31, 28, 31, 30, 31, 30, 31, 31, 30, 31, 30, 31>>

RealDate(t) ==
    /\ t.shape
    /\ t.y >= 1 /\ t.y <= 9999
    /\ t.m >= 1 /\ t.m <= 12
    /\ t.d >= 1
    /\ \/ t.d <= DaysOfMonth[t.m]
       \/ t.m = 2 /\ t.d = 29 /\ t.y % 4 = 0 /\ (t.y % 100 # 0 \/ t.y % 400 = 0)

C12_Step ==
    /\ \A t \in CallerDateTexts :
          IndividualCustomer_init("Ana", t, "111", "Rua A, 1").raised <=> ~RealDate(t)
    /\ IndividualCustomer_init("Ana", DateStr(TRUE, 31, 2, 2020), "111", "Rua A, 1").raised
    /\ ~IndividualCustomer_init("Ana", DateStr(TRUE, 1, 1, 1990), "111", "Rua A, 1").raised
    /\ last'.op = "IndividualCustomer" =>
          IF last'.ret
          THEN /\ Len(customers') = Len(customers) + 1
               /\ SubSeq(customers', 1, Len(customers)) = customers
          ELSE /\ customers' = customers
               /\ last'.out = "InvalidDateException"
    /\ last'.op = "create_customer" =>
          /\ Len(customers') = Len(customers) + (IF last'.ret THEN 1 ELSE 0)
          /\ SubSeq(customers', 1, Len(customers)) = customers
    /\ \A i \in DOMAIN customers' : RealDate(customers'[i].date_of_birth)

FailureReasons ==
    {"Withdrawal amount exceeds the limit", "Maximum number of withdrawals exceeded",
     "Insufficient funds", "Invalid amount"}

C13_OriginalStep ==
    (/\ last'.op \in {"Account.withdraw", "Withdrawal"}
     /\ heap[last'.h].cls = "CheckingAccount")
    => LET acc == heap[last'.h]
           a == last'.amount
       IN  /\ last'.out =
                 (IF FGt(a, acc.limit) THEN "Withdrawal amount exceeds the limit"
                  ELSE IF WithdrawalCount(acc) >= acc.withdrawal_limit
                       THEN "Maximum number of withdrawals exceeded"
                  ELSE IF FGt(a, acc.balance) THEN "Insufficient funds"
                  ELSE IF FLe(a, Zero) THEN "Invalid amount"
                  ELSE "Withdrawal successful")
           /\ last'.ret <=> last'.out \notin FailureReasons

C13_ReasonByPriorityLeZero == [][C13_OriginalStep]_vars

\* C13, amended: the same priority, with 'invalid amount' reported when the
\* amount is not > 0, which covers amount <= 0 and nan.
C13_Step ==
    (/\ last'.op \in {"Account.withdraw", "Withdrawal"}
     /\ heap[last'.h].cls = "CheckingAccount")
    => LET acc == heap[last'.h]
           a == last'.amount
       IN  /\ last'.out =
                 (IF FGt(a, acc.limit) THEN "Withdrawal amount exceeds the limit"
                  ELSE IF WithdrawalCount(acc) >= acc.withdrawal_limit
                       THEN "Maximum number of withdrawals exceeded"
                  ELSE IF FGt(a, acc.balance) THEN "Insufficient funds"
                  ELSE IF ~FGt(a, Zero) THEN "Invalid amount"
                  ELSE "Withdrawal successful")
           /\ last'.ret <=> last'.out \notin FailureReasons

C13_ReasonByPriority == [][C13_Step]_vars

\* C13 witness: with 3 withdrawals recorded a withdrawal of 750 was refused
\* for the limit, the first of the two reasons that apply.
C13_Witness ==
    /\ last.op = "Withdrawal"
    /\ ~last.ret
    /\ heap[last.h].cls = "CheckingAccount"
    /\ WithdrawalCount(heap[last.h]) = 3
    /\ last.amount = Fin(750)
    /\ last.out = "Withdrawal amount exceeds the limit"

\* C14: the i-th account of main's accounts list has number i, and no two
\* accounts of the list have the same number.
C14_Numbers ==
    /\ \A i \in DOMAIN accounts : heap[accounts[i]].number = i
    /\ \A i, j \in DOMAIN accounts :
          i # j => heap[accounts[i]].number # heap[accounts[j]].number

\* C14 witness: with one account in the list, a create_account for an unknown
\* ssn has failed.
C14_Witness ==
    /\ last.op = "create_account"
    /\ ~last.ret
    /\ Len(accounts) = 1
    /\ heap[accounts[1]].number = 1

\* C15: create_customer adds a customer only when no listed customer has its
\* ssn and otherwise leaves the list as it was; no two customers of the list
\* have the same ssn; filter_customer gives the one customer with the ssn, or
\* None when there is none.
C15_Step ==
    /\ last'.op = "create_customer" =>
          IF last'.ret
          THEN /\ Len(customers') = Len(customers) + 1
               /\ SubSeq(customers', 1, Len(customers)) = customers
               /\ \A i \in DOMAIN customers :
                     customers[i].ssn # customers'[Len(customers')].ssn
          ELSE customers' = customers
    /\ \A i, j \in DOMAIN customers' : i # j => customers'[i].ssn # customers'[j].ssn
    /\ \A ssn \in SSNs :
          LET found == filter_customer(ssn, customers')
              matching == {i \in DOMAIN customers' : customers'[i].ssn = ssn}
          IN  IF matching = {} THEN found = 0 ELSE matching = {found}

C15_UniqueSsn == [][C15_Step]_vars

\* C15 witness: with the two customers 111 and 222 in the list, create_customer
\* was refused for an ssn already present.
C15_Witness ==
    /\ last.op = "create_customer"
    /\ ~last.ret
    /\ last.out = "A customer with this SSN already exists"
    /\ Len(customers) = 2
    /\ customers[1].ssn # customers[2].ssn

\* C17: a deposit or a withdrawal of the menu, successful or not, changes at
\* most the balance and history of the account it selected: every other
\* account, the customers list with every customer's accounts, and the
\* accounts list are as before, so no entry recorded for one account shows in
\* the history of another.
C17_Step ==
    last'.op \in {"Deposit", "Withdrawal", "deposit", "withdraw"} =>
        /\ customers' = customers
        /\ accounts' = accounts
        /\ DOMAIN heap' = DOMAIN heap
        /\ \A h \in DOMAIN heap : h # last'.h => heap'[h] = heap[h]
        /\ last'.h # 0 =>
              heap'[last'.h] = [heap[last'.h] EXCEPT !.balance = heap'[last'.h].balance,
                                                      !.history = heap'[last'.h].history]

C17_Frame == [][C17_Step]_vars

\* C17 witness: a customer has two accounts; a deposit into the second has
\* succeeded and the first still has its own balance and its own one entry.
C17_Witness ==
    /\ Len(heap) = 2
    /\ heap[1].customer = heap[2].customer
    /\ last.op = "Deposit"
    /\ last.ret
    /\ last.h = 2
    /\ last.amount = PosInf
    /\ heap[2].balance = PosInf
    /\ heap[1].balance = Fin(500)
    /\ Len(heap[1].history) = 1
    /\ Len(heap[2].history) = 1

\* C19: every account of main's accounts list is there once, is once in the
\* accounts of the customer stored as its owner, who is in the customers list,
\* and is in no other customer's accounts; every customer's accounts are in
\* the order of their creation.
Occurrences(seq, x) == Cardinality({i \in DOMAIN seq : seq[i] = x})

C19_Ownership ==
    /\ \A i \in DOMAIN accounts :
          LET a == accounts[i]
          IN  /\ a \in DOMAIN heap
              /\ Occurrences(accounts, a) = 1
              /\ heap[a].customer \in DOMAIN customers
              /\ \A c \in DOMAIN customers :
                    Occurrences(customers[c].accounts, a) =
                        (IF c = heap[a].customer THEN 1 ELSE 0)
    /\ \A c \in DOMAIN customers :
          /\ \A i \in DOMAIN customers[c].accounts :
                Occurrences(accounts, customers[c].accounts[i]) = 1
          /\ \A i, j \in DOMAIN customers[c].accounts :
                i < j => heap[customers[c].accounts[i]].number
                             < heap[customers[c].accounts[j]].number

\* C19 witness: two customers, the second created owns both accounts.
C19_Witness ==
    /\ Len(customers) = 2
    /\ Len(accounts) = 2
    /\ customers[1].accounts = <<>>
    /\ Len(customers[2].accounts) = 2
    /\ heap[accounts[1]].customer = 2
    /\ heap[accounts[2]].customer = 2

\* C18: when the account is changed only by Customer.make_transaction, its
\* balance equals the sum of the amounts of the Deposit entries of its history
\* minus the sum of the amounts of its Withdrawal entries.  FEq is == of
\* floats, which is False when either side is nan.
RECURSIVE SumOf(_, _)
SumOf(transactions, type) ==
    IF transactions = <<>>
    THEN Zero
    ELSE LET n == Len(transactions)
             rest == SumOf(SubSeq(transactions, 1, n - 1), type)
         IN  IF transactions[n].type = type
             THEN FAdd(rest, transactions[n].amount)
             ELSE rest

FEq(a, b) == a.k # "nan" /\ b.k # "nan" /\ a = b

C18_BalanceIsSum ==
    \A h \in DOMAIN heap :
        FEq(heap[h].balance,
            FSub(SumOf(heap[h].history, "Deposit"),
                 SumOf(heap[h].history, "Withdrawal")))


\* C16: two withdrawals on one account run by concurrent callers.  When the
\* callers hold one lock of the account around the whole of check, mutate and
\* record, the balance is never < 0 and a checking account never has more
\* than withdrawal_limit recorded Withdrawal entries.
C16_LockedIsSafe ==
    lock.used =>
        \A h \in DOMAIN heap :
            /\ ~FGt(Zero, heap[h].balance)
            /\ heap[h].cls = "CheckingAccount" =>
                  WithdrawalCount(heap[h]) <= heap[h].withdrawal_limit

\* C16 witness: with no lock, both withdrawals of 500 have returned true on a
\* checking account that had balance 500 and two recorded withdrawals; the
\* balance is -500 and four withdrawals are recorded.
C16_Witness ==
    /\ ~lock.used
    /\ \A t \in Callers :
          frames[t].pc = "done" /\ frames[t].ret /\ frames[t].amount = Fin(DefaultLimit)
    /\ heap[1].cls = "CheckingAccount"
    /\ heap[1].balance = Fin(-500)
    /\ FGt(Zero, heap[1].balance)
    /\ WithdrawalCount(heap[1]) = 4
    /\ WithdrawalCount(heap[1]) > heap[1].withdrawal_limit

====
